---- MODULE Spec2Model ----
(***************************************************************************)
(* A model of aima_probability/probability.py: discrete distributions,     *)
(* boolean Bayesian networks, exact inference by enumeration and by        *)
(* variable elimination, sampling inference, the two-state hidden Markov   *)
(* model algorithms and the grid map of Monte Carlo localization.          *)
(*                                                                         *)
(* Python floats are modelled as exact rationals <<n, d>> in lowest terms  *)
(* with d > 0, so "within numerical tolerance" becomes equality.  A Python *)
(* dict is a function, a list a sequence, and a call that raises yields a  *)
(* record whose field raised names the exception.                          *)
(***************************************************************************)
EXTENDS Integers, Sequences, FiniteSets, TLC

VARIABLES
    nodes,      \* bn.nodes: the BayesNodes, in insertion order
    variables,  \* bn.variables
    gibbs,      \* the locals of a running gibbs_ask
    joint,      \* a JointProbDist: its variables, prob and vals
    dist,       \* a ProbDist: its varname, prob and values
    hmm,        \* a HiddenMarkovModel: transition_model, sensor_model, prior
    lag_d,      \* the lag d of the caller's fixed_lag_smoothing stream
    ev,         \* the caller's observation list, handed to the HMM calls
    time_t,     \* the caller's time index t, handed to fixed_lag_smoothing
    grid,       \* an MCLmap: m, nrows, ncols, empty
    out         \* the last call and its outcome

netVars == <<nodes, variables>>
hmmVars == <<hmm, lag_d, ev, time_t>>
vars == <<nodes, variables, gibbs, joint, dist, hmmVars, grid, out>>
otherVars == <<joint, dist, hmmVars, grid>>

(***************************************************************************)
(* Bounds of the model.                                                    *)
(***************************************************************************)
\* the variable names callers may use (registered or not)
Vars == {"A", "B", "C"}
\* the longest parent list of a node specification
MaxParents == 2
\* the largest sample count N of a sampling call
MaxN == 2
\* the most observations the caller's list starts with
MaxObs == 3
\* the longest the observation list may get before the caller stops calling
MaxEv == 5
\* the largest lag d and the last time index t of a fixed-lag stream
MaxLag == 3
MaxT == 4
\* the most rows and the most columns of a grid map
MaxDim == 3

(***************************************************************************)
(* Generic helpers: ranges, rationals, call outcomes.                      *)
(***************************************************************************)
Range(s) == {s[i] : i \in DOMAIN s}

RECURSIVE Gcd(_, _)
Gcd(a, b) == IF b = 0 THEN a ELSE Gcd(b, a % b)

Abs(n) == IF n < 0 THEN -n ELSE n

\* the rational n/d in lowest terms, d /= 0
Rat(n, d) ==
    LET g == Gcd(Abs(n), Abs(d))
        s == IF d < 0 THEN -1 ELSE 1
    IN  <<(s * n) \div g, (s * d) \div g>>

Zero == Rat(0, 1)
One == Rat(1, 1)
\* sums and products cancel common factors before they multiply
RAdd(x, y) ==
    LET g == Gcd(x[2], y[2])
    IN  Rat(x[1] * (y[2] \div g) + y[1] * (x[2] \div g), (x[2] \div g) * y[2])
RSub(x, y) == RAdd(x, <<-y[1], y[2]>>)
RMul(x, y) ==
    LET g1 == Gcd(Abs(x[1]), y[2])
        g2 == Gcd(Abs(y[1]), x[2])
    IN  <<(x[1] \div g1) * (y[1] \div g2), (x[2] \div g2) * (y[2] \div g1)>>
\* x / y for y /= 0
RDiv(x, y) == RMul(x, IF y[1] < 0 THEN <<-y[2], -y[1]>> ELSE <<y[2], y[1]>>)
RLeq(x, y) == x[1] * y[2] <= y[1] * x[2]

\* sum(...) of the rationals of a sequence
RECURSIVE RSumSeq(_)
RSumSeq(s) == IF s = <<>> THEN Zero ELSE RAdd(Head(s), RSumSeq(Tail(s)))

\* product(...) of utils over a sequence of rationals
RECURSIVE RProdSeq(_)
RProdSeq(s) == IF s = <<>> THEN One ELSE RMul(Head(s), RProdSeq(Tail(s)))

\* sum(d.values()) of a dict of rationals
RECURSIVE RSumFun(_)
RSumFun(f) ==
    IF DOMAIN f = {} THEN Zero
    ELSE LET k == CHOOSE k \in DOMAIN f : TRUE
         IN  RAdd(f[k], RSumFun([j \in DOMAIN f \ {k} |-> f[j]]))

\* a call that returned v, and a call that raised exception exc
Return(v) == [raised |-> "", value |-> v]
Raise(exc) == [raised |-> exc, value |-> <<>>]

\* {**e, X: xi}
Ext(e, X, xi) == [v \in DOMAIN e \cup {X} |-> IF v = X THEN xi ELSE e[v]]
\* d.update(e) on a copy of d
Upd(d, e) == [v \in DOMAIN d \cup DOMAIN e |-> IF v \in DOMAIN e THEN e[v] ELSE d[v]]

\* the value tuples (True/False) of arity n
BoolTuples(n) == [1..n -> BOOLEAN]

(***************************************************************************)
(* ProbDist                                                                *)
(***************************************************************************)
\* isclose(total, 1.0) of utils: exact on rationals
isclose(x, y) == x = y

\* ProbDist(varname) with no freqs: no values, no mass
ProbDist_empty(varname) == [varname |-> varname, prob |-> <<>>, values |-> <<>>]

\* ProbDist.__setitem__: P[val] = p (val appended to values when new)
ProbDist_setitem(P, val, p) ==
    [P EXCEPT !.prob = Ext(P.prob, val, p),
              !.values = IF val \in Range(P.values) THEN @ ELSE Append(@, val)]

\* ProbDist.__getitem__: P[val], 0 for an unseen value
ProbDist_getitem(P, val) == IF val \in DOMAIN P.prob THEN P.prob[val] ELSE Zero

\* ProbDist.normalize: a division happens for every value when the total is
\* not close to 1; with no value there is nothing to divide
ProbDist_normalize(P) ==
    LET total == RSumFun(P.prob)
    IN  IF isclose(total, One) THEN Return(P)
        ELSE IF DOMAIN P.prob /= {} /\ total = Zero THEN Raise("ZeroDivisionError")
        ELSE Return([P EXCEPT !.prob = [v \in DOMAIN P.prob |-> RDiv(P.prob[v], total)]])

\* ProbDist(varname, freqs): the dict is entered key by key and, when it is
\* truthy (not empty), normalized; the dict's keys are listed in keyOrder
ProbDist_init(varname, freqs, keyOrder) ==
    IF DOMAIN freqs = {} THEN Return(ProbDist_empty(varname))
    ELSE ProbDist_normalize([varname |-> varname, prob |-> freqs, values |-> keyOrder])

\* the values and masses callers enter into a distribution
Values == {"a", "b", "c"}
Masses == {Rat(0, 1), Rat(1, 2), Rat(1, 1), Rat(2, 1)}

\* the specifications that do not use the distribution objects leave them unset
NoDist == [varname |-> "?"]
NoJoint == [variables |-> <<>>]

(***************************************************************************)
(* JointProbDist                                                           *)
(***************************************************************************)
\* JointProbDist(variables): no entry, and no key in the defaultdict vals
JointProbDist(vs) == [variables |-> vs, prob |-> <<>>, vals |-> <<>>]

\* the loop of JointProbDist.__setitem__ that keeps the values seen, from
\* position i of the variables on
RECURSIVE joint_track(_, _, _, _)
joint_track(vals, vs, values, i) ==
    IF i > Len(vs) THEN vals
    ELSE LET var == vs[i]
             seen == IF var \in DOMAIN vals THEN vals[var] ELSE <<>>
         IN  joint_track(Ext(vals, var,
                             IF values[i] \in Range(seen) THEN seen ELSE Append(seen, values[i])),
                         vs, values, i + 1)

\* JointProbDist.__setitem__(values, p), values a dict over the variables
JointProbDist_setitem(P, values, p) ==
    LET vt == [i \in 1..Len(P.variables) |-> values[P.variables[i]]]
    IN  [P EXCEPT !.prob = Ext(P.prob, vt, p),
                  !.vals = joint_track(P.vals, P.variables, vt, 1)]

\* JointProbDist.__getitem__(values), values a dict over the variables
JointProbDist_getitem(P, values) ==
    LET vt == [i \in 1..Len(P.variables) |-> values[P.variables[i]]]
    IN  IF vt \in DOMAIN P.prob THEN P.prob[vt] ELSE Zero

\* JointProbDist.values(var): vals is a defaultdict(list), a missing key reads as []
JointProbDist_values(P, var) == IF var \in DOMAIN P.vals THEN P.vals[var] ELSE <<>>

\* what reading vals[var] leaves behind: the key, with [] when it was missing
JointProbDist_touch(P, var) ==
    IF var \in DOMAIN P.vals THEN P ELSE [P EXCEPT !.vals = Ext(P.vals, var, <<>>)]

\* enumerate_joint(variables, e, P) (vs: the hidden variables still to sum over)
RECURSIVE enumerate_joint(_, _, _)
enumerate_joint(vs, e, P) ==
    IF vs = <<>> THEN JointProbDist_getitem(P, e)
    ELSE LET Y == Head(vs)
             dom == JointProbDist_values(P, Y)
         IN  RSumSeq([i \in 1..Len(dom) |-> enumerate_joint(Tail(vs), Ext(e, Y, dom[i]), P)])

\* enumerate_joint_ask(X, e, P)
enumerate_joint_ask(X, e, P) ==
    IF X \in DOMAIN e THEN Raise("AssertionError")
    ELSE LET Y == SelectSeq(P.variables, LAMBDA v : v /= X /\ v \notin DOMAIN e)
             dom == JointProbDist_values(P, X)
         IN  ProbDist_normalize(
                 [varname |-> X,
                  prob |-> [xi \in Range(dom) |-> enumerate_joint(Y, Ext(e, X, xi), P)],
                  values |-> dom])

\* the JointProbDist after enumerate_joint_ask(X, e, P): reading P.values(X)
\* enters X into vals; the hidden variables are read only below a value of
\* X, when every variable has its key already
enumerate_joint_ask_effect(X, e, P) ==
    IF X \in DOMAIN e THEN P ELSE JointProbDist_touch(P, X)

(***************************************************************************)
(* Vectors and matrices of utils                                           *)
(***************************************************************************)
vector_add(a, b) == [i \in DOMAIN a |-> RAdd(a[i], b[i])]
scalar_vector_product(x, v) == [i \in DOMAIN v |-> RMul(x, v[i])]
element_wise_product(a, b) == [i \in DOMAIN a |-> RMul(a[i], b[i])]
\* normalize(dist) of utils for a list: every entry over the total
normalize(v) == [i \in DOMAIN v |-> RDiv(v[i], RSumSeq(v))]
vector_to_diagonal(v) == [i \in DOMAIN v |-> [j \in DOMAIN v |-> IF i = j THEN v[i] ELSE Zero]]
\* the product of two matrices
mat_mult(A, B) ==
    [i \in DOMAIN A |-> [j \in DOMAIN B[1] |->
        RSumSeq([k \in DOMAIN B |-> RMul(A[i][k], B[k][j])])]]
\* matrix_multiplication(X, *Ys): the product from the left
RECURSIVE matrix_multiplication(_)
matrix_multiplication(Ms) ==
    IF Len(Ms) = 1 THEN Ms[1]
    ELSE mat_mult(matrix_multiplication(SubSeq(Ms, 1, Len(Ms) - 1)), Ms[Len(Ms)])
\* inverse_matrix(X) of a 2x2 matrix with a determinant other than 0
inverse_matrix(X) ==
    LET det == RSub(RMul(X[1][1], X[2][2]), RMul(X[1][2], X[2][1]))
    IN  << <<RDiv(X[2][2], det), RDiv(RSub(Zero, X[1][2]), det)>>,
           <<RDiv(RSub(Zero, X[2][1]), det), RDiv(X[1][1], det)>> >>

\* s[i] for a Python index i, negative indices counting from the end
PyAt(s, i) == IF i < 0 THEN Len(s) + i + 1 ELSE i + 1

\* s[::-1]
Reversed(s) == [i \in DOMAIN s |-> s[Len(s) + 1 - i]]

(***************************************************************************)
(* HiddenMarkovModel and the smoothing algorithms                          *)
(***************************************************************************)
\* the observations, and the None that forward_backward and
\* fixed_lag_smoothing insert at the head of the list
Obs == {"True", "False"}
None == "None"
\* a call that returns None
NoEstimate == <<>>

\* HiddenMarkovModel.sensor_dist(ev)
sensor_dist(HMM, e) == IF e = "True" THEN HMM.sensor_model[1] ELSE HMM.sensor_model[2]

\* forward(HMM, fv, ev)
forward(HMM, fv, e) ==
    LET prediction == vector_add(scalar_vector_product(fv[1], HMM.transition_model[1]),
                                 scalar_vector_product(fv[2], HMM.transition_model[2]))
    IN  normalize(element_wise_product(sensor_dist(HMM, e), prediction))

\* backward(HMM, b, ev)
backward(HMM, b, e) ==
    LET prediction == element_wise_product(sensor_dist(HMM, e), b)
    IN  normalize(vector_add(scalar_vector_product(prediction[1], HMM.transition_model[1]),
                             scalar_vector_product(prediction[2], HMM.transition_model[2])))

\* the forward pass of forward_backward: fv[i] = forward(HMM, fv[i - 1], ev[i])
\* for i in range(1, t + 1); ev1 is the list after the insert
RECURSIVE fb_forward(_, _, _, _)
fb_forward(i, fv, ev1, HMM) ==
    IF i > Len(ev1) - 1 THEN fv
    ELSE fb_forward(i + 1,
             [fv EXCEPT ![PyAt(fv, i)] = forward(HMM, fv[PyAt(fv, i - 1)], ev1[PyAt(ev1, i)])],
             ev1, HMM)

\* the backward pass of forward_backward, for i in range(t, -1, -1):
\* sv[i - 1] = normalize(fv[i] * b); b = backward(HMM, b, ev[i])
RECURSIVE fb_backward(_, _, _, _, _, _)
fb_backward(i, sv, b, fv, ev1, HMM) ==
    IF i < 0 THEN sv
    ELSE fb_backward(i - 1,
             [sv EXCEPT ![PyAt(sv, i - 1)] =
                 normalize(element_wise_product(fv[PyAt(fv, i)], b))],
             backward(HMM, b, ev1[PyAt(ev1, i)]), fv, ev1, HMM)

\* forward_backward(HMM, ev, prior): the list returned
forward_backward(HMM, evl, prior) ==
    LET ev1 == <<None>> \o evl
        n == Len(ev1)
        fv == fb_forward(1, [[i \in 1..n |-> <<Zero, Zero>>] EXCEPT ![1] = prior], ev1, HMM)
        sv == fb_backward(Len(evl), [i \in 1..n |-> <<Zero, Zero>>], <<One, One>>, fv, ev1, HMM)
    IN  Reversed(sv)

\* fixed_lag_smoothing(e_t, HMM, d, ev, t): the outcome
fixed_lag_smoothing(e_t, HMM, lag, evl, ti) ==
    LET ev1 == <<None>> \o evl
        T_model == HMM.transition_model
        B0 == << <<One, Zero>>, <<Zero, One>> >>
        O_t == vector_to_diagonal(sensor_dist(HMM, e_t))
        f == IF ti > lag THEN forward(HMM, HMM.prior, e_t) ELSE HMM.prior
        B == IF ti > lag
             THEN LET O_tmd == vector_to_diagonal(sensor_dist(HMM, ev1[PyAt(ev1, ti - lag)]))
                  IN  matrix_multiplication(<<inverse_matrix(O_tmd), inverse_matrix(T_model),
                                              B0, T_model, O_t>>)
             ELSE matrix_multiplication(<<B0, T_model, O_t>>)
    IN  IF ti > lag /\ ti - lag > Len(ev1) - 1 THEN Raise("IndexError")
        ELSE IF ti + 1 > lag THEN Return(normalize(matrix_multiplication(<< <<f>>, B >>)[1]))
        ELSE Return(NoEstimate)

\* the models of the temporal specification; the others leave the stream unset
HMMs ==
    {[transition_model |-> << <<Rat(2, 3), Rat(1, 3)>>, <<Rat(1, 3), Rat(2, 3)>> >>,
      sensor_model |-> << <<Rat(3, 4), Rat(1, 4)>>, <<Rat(1, 4), Rat(3, 4)>> >>,
      prior |-> <<Rat(1, 2), Rat(1, 2)>>],
     [transition_model |-> << <<Rat(1, 2), Rat(1, 2)>>, <<Rat(1, 4), Rat(3, 4)>> >>,
      sensor_model |-> << <<Rat(1, 2), Rat(1, 4)>>, <<Rat(1, 2), Rat(3, 4)>> >>,
      prior |-> <<Rat(1, 4), Rat(3, 4)>>]}
NoStream == hmm = <<>> /\ lag_d = 0 /\ ev = <<>> /\ time_t = 0
NoMap == [m |-> <<>>]

(***************************************************************************)
(* MCLmap                                                                  *)
(***************************************************************************)
\* MCLmap.__init__(m): empty lists the free cells (i, j) row by row; cells
\* and positions are 0-based as in the source
MCLmap(m) ==
    LET nrows == Len(m)
        ncols == Len(m[1])
        cells == [k \in 1..(nrows * ncols) |-> <<(k - 1) \div ncols, (k - 1) % ncols>>]
    IN  [m |-> m, nrows |-> nrows, ncols |-> ncols,
         empty |-> SelectSeq(cells, LAMBDA c : m[c[1] + 1][c[2] + 1] = 0)]

\* the sensor direction of ray_cast for orientation 0
sensor_delta(sensor_num) ==
    <<IF sensor_num % 2 = 0 THEN sensor_num - 1 ELSE 0,
      IF sensor_num % 2 = 1 THEN 2 - sensor_num ELSE 0>>

\* for _ in range(orient): delta = (delta[1], -delta[0])
RECURSIVE rotate(_, _)
rotate(delta, orient) ==
    IF orient = 0 THEN delta ELSE rotate(<<delta[2], -delta[1]>>, orient - 1)

\* the while loop of ray_cast: both coordinates are tested against nrows,
\* then the cell is read; a column past the row's end raises IndexError
RECURSIVE ray_loop(_, _, _, _)
ray_loop(M, pos, delta, range_count) ==
    IF 0 <= pos[1] /\ pos[1] < M.nrows /\ 0 <= pos[2] /\ pos[2] < M.nrows
    THEN IF pos[2] >= M.ncols THEN Raise("IndexError")
         ELSE IF M.m[pos[1] + 1][pos[2] + 1] = 0
         THEN ray_loop(M, <<pos[1] + delta[1], pos[2] + delta[2]>>, delta, range_count + 1)
         ELSE Return(range_count)
    ELSE Return(range_count)

\* MCLmap.ray_cast(sensor_num, kin_state)
ray_cast(M, sensor_num, kin_state) ==
    ray_loop(M, <<kin_state[1], kin_state[2]>>,
             rotate(sensor_delta(sensor_num), kin_state[3]), 0)

(***************************************************************************)
(* BayesNode, BoolBayesNode                                                *)
(***************************************************************************)
\* event_values(event, variables) for a dict event (vs: the variables)
event_values(event, vs) == [i \in 1..Len(vs) |-> event[vs[i]]]

\* BoolBayesNode._init_boolean_cpt for the tuple-keyed form {vs: p}: every
\* key is a boolean tuple of the parents' arity and every p is in [0, 1]
init_boolean_cpt_ok(cpt, parents) ==
    \A vs \in DOMAIN cpt :
        /\ vs \in BoolTuples(Len(parents))
        /\ RLeq(Zero, cpt[vs]) /\ RLeq(cpt[vs], One)

init_boolean_cpt(cpt) ==
    [vs \in DOMAIN cpt |-> [b \in BOOLEAN |-> IF b THEN cpt[vs] ELSE RSub(One, cpt[vs])]]

\* BayesNode.determine_domain, sorted: False < True
determine_domain(cpt) == <<FALSE, TRUE>>

\* BayesNode.__init__ (through BoolBayesNode.__init__): no child yet
BayesNode(X, parents, cpt) ==
    [variable |-> X, parents |-> parents, cpt |-> init_boolean_cpt(cpt),
     children |-> <<>>, domain |-> determine_domain(cpt)]

\* BayesNode.p(value, event)
BayesNode_p(node, value, event) == node.cpt[event_values(event, node.parents)][value]

(***************************************************************************)
(* BayesNet                                                                *)
(***************************************************************************)
\* the net as one value, for the functions that take bn
BN == [nodes |-> nodes, variables |-> variables]

\* BayesNet.variable_node raises when no node has the variable
NoSuchVariable(bn, var) == \A i \in DOMAIN bn.nodes : bn.nodes[i].variable /= var

\* index of the first node of ns whose variable is var
node_index(ns, var) ==
    CHOOSE i \in DOMAIN ns :
        /\ ns[i].variable = var
        /\ \A j \in 1..(i - 1) : ns[j].variable /= var

\* BayesNet.variable_node(var), var registered
variable_node(bn, var) == bn.nodes[node_index(bn.nodes, var)]

\* BayesNet.variable_values(var), var registered
variable_values(bn, var) == variable_node(bn, var).domain

\* the loop "for parent in node.parents: variable_node(parent).children.append(node)";
\* a reference to a node is modelled by the node's variable
RECURSIVE append_children(_, _, _)
append_children(ns, parents, X) ==
    IF parents = <<>> THEN ns
    ELSE append_children([ns EXCEPT ![node_index(ns, Head(parents))].children = Append(@, X)],
                         Tail(parents), X)

\* the two assertions of BayesNet.add
add_ok_parents_only(bn, node) ==
    \A i \in DOMAIN node.parents : node.parents[i] \in Range(bn.variables)

add_ok(bn, node) ==
    /\ node.variable \notin Range(bn.variables)
    /\ \A i \in DOMAIN node.parents : node.parents[i] \in Range(bn.variables)

\* whether BayesNet.add(node_spec) raises (create_node's assertions included)
add_raises(bn, X, parents, cpt) ==
    ~init_boolean_cpt_ok(cpt, parents) \/ ~add_ok(bn, BayesNode(X, parents, cpt))

\* the net after an add that does not raise
add_net(bn, X, parents, cpt) ==
    [nodes |-> append_children(Append(bn.nodes, BayesNode(X, parents, cpt)), parents, X),
     variables |-> Append(bn.variables, X)]

\* the node specifications callers pass to add: a name, a parent list and a
\* table with one row for every assignment of the parents
ParentLists == UNION {[1..n -> Vars] : n \in 0..MaxParents}
PVals == {Rat(0, 1), Rat(1, 3)}
ParentRows(parents) == {event_values(g, parents) : g \in [Range(parents) -> BOOLEAN]}
Tables(parents) == [ParentRows(parents) -> PVals]

(***************************************************************************)
(* Exact inference: enumeration                                            *)
(***************************************************************************)
\* enumerate_all(variables, e, bn) (vs: the variables still to visit)
RECURSIVE enumerate_all(_, _, _)
enumerate_all(vs, e, bn) ==
    IF vs = <<>> THEN One
    ELSE LET Y == Head(vs)
             rest == Tail(vs)
             Ynode == variable_node(bn, Y)
             dom == variable_values(bn, Y)
         IN  IF Y \in DOMAIN e
             THEN RMul(BayesNode_p(Ynode, e[Y], e), enumerate_all(rest, e, bn))
             ELSE RSumSeq([i \in 1..Len(dom) |->
                     RMul(BayesNode_p(Ynode, dom[i], e),
                          enumerate_all(rest, Ext(e, Y, dom[i]), bn))])

\* the loop of enumeration_ask: Q[xi] = enumerate_all(...) for xi in the domain
enumeration_scores(X, e, bn) ==
    LET dom == variable_values(bn, X)
    IN  [xi \in Range(dom) |-> enumerate_all(bn.variables, Ext(e, X, xi), bn)]

\* enumeration_ask(X, e, bn)
enumeration_ask(X, e, bn) ==
    IF X \in DOMAIN e THEN Raise("AssertionError")
    ELSE IF NoSuchVariable(bn, X) THEN Raise("Exception")
    ELSE ProbDist_normalize([varname |-> X, prob |-> enumeration_scores(X, e, bn),
                             values |-> variable_values(bn, X)])

(***************************************************************************)
(* Factors and variable elimination                                        *)
(***************************************************************************)
\* list(set(...)): Python lists the names of a set in an order that depends
\* on the hash seed of the run and on how the set was built, so every call
\* can list them in any order; order is the one a call takes
list_of_set_in(S, order) == SelectSeq(order, LAMBDA v : v \in S)

\* all_events(variables, bn, e): every assignment of the variables' domain
\* values, updated with e
all_events(vs, bn, e) ==
    {Upd(g, e) : g \in {h \in [Range(vs) -> BOOLEAN] :
                          \A v \in Range(vs) : h[v] \in Range(variable_values(bn, v))}}

\* the table {event_values(e1, variables): val(e1) for e1 in events}
table_of(events, vs, val(_)) ==
    [k \in {event_values(e1, vs) : e1 \in events} |->
        val(CHOOSE e1 \in events : event_values(e1, vs) = k)]

\* Factor.p(e)
Factor_p(f, e) == f.cpt[event_values(e, f.variables)]

\* make_factor(var, e, bn)
make_factor(var, e, bn) ==
    LET node == variable_node(bn, var)
        fvars == SelectSeq(<<var>> \o node.parents, LAMBDA X : X \notin DOMAIN e)
    IN  [variables |-> fvars,
         cpt |-> table_of(all_events(fvars, bn, e), fvars,
                          LAMBDA e1 : BayesNode_p(node, e1[var], e1))]

\* the orders in which list(set(...)) can list the names of a set S
Orders(S) == {o \in [1..Cardinality(S) -> S] : Range(o) = S}

\* a pointwise product that multiplies self.p(e) by itself
Factor_pointwise_product_self(f, other, bn, order) ==
    LET fvars == list_of_set_in(Range(f.variables) \cup Range(other.variables), order)
    IN  [variables |-> fvars,
         cpt |-> table_of(all_events(fvars, bn, <<>>), fvars,
                          LAMBDA e1 : RMul(Factor_p(f, e1), Factor_p(f, e1)))]

\* Factor.pointwise_product(other, bn), list(set(...)) listing the names in
\* the given order
Factor_pointwise_product_in(f, other, bn, order) ==
    LET fvars == list_of_set_in(Range(f.variables) \cup Range(other.variables), order)
    IN  [variables |-> fvars,
         cpt |-> table_of(all_events(fvars, bn, <<>>), fvars,
                          LAMBDA e1 : RMul(Factor_p(f, e1), Factor_p(other, e1)))]

\* Factor.pointwise_product(other, bn): the factors the call can return,
\* one for every order list(set(...)) can take
Factor_pointwise_product(f, other, bn) ==
    {Factor_pointwise_product_in(f, other, bn, order) :
        order \in Orders(Range(f.variables) \cup Range(other.variables))}

\* Factor.sum_out that keeps only the first value of var instead of summing
Factor_sum_out_first(f, var, bn) ==
    LET fvars == SelectSeq(f.variables, LAMBDA X : X /= var)
        dom == variable_values(bn, var)
    IN  [variables |-> fvars,
         cpt |-> table_of(all_events(fvars, bn, <<>>), fvars,
                          LAMBDA e1 : Factor_p(f, Ext(e1, var, dom[1])))]

\* Factor.sum_out(var, bn)
Factor_sum_out(f, var, bn) ==
    LET fvars == SelectSeq(f.variables, LAMBDA X : X /= var)
        dom == variable_values(bn, var)
    IN  [variables |-> fvars,
         cpt |-> table_of(all_events(fvars, bn, <<>>), fvars,
                          LAMBDA e1 : RSumSeq([i \in 1..Len(dom) |->
                                           Factor_p(f, Ext(e1, var, dom[i]))]))]

\* pointwise_product(factors, bn): reduce from the left, factors not empty;
\* the factors the call can return
RECURSIVE pointwise_product(_, _)
pointwise_product(factors, bn) ==
    IF Len(factors) = 1 THEN {factors[1]}
    ELSE UNION {Factor_pointwise_product(g, factors[Len(factors)], bn) :
                    g \in pointwise_product(SubSeq(factors, 1, Len(factors) - 1), bn)}

\* sum_out(var, factors, bn): the factor lists the call can return
sum_out(var, factors, bn) ==
    LET var_factors == SelectSeq(factors, LAMBDA f : var \in Range(f.variables))
        result == SelectSeq(factors, LAMBDA f : var \notin Range(f.variables))
    IN  {Append(result, Factor_sum_out(g, var, bn)) : g \in pointwise_product(var_factors, bn)}

\* an is_hidden that takes the query variable for a hidden one
is_hidden_query_too(var, X, e) == var \notin DOMAIN e

\* is_hidden(var, X, e) for a single query variable X
is_hidden(var, X, e) == var /= X /\ var \notin DOMAIN e

\* one pass of the loop body of elimination_ask: the factor lists the pass
\* over var can leave
elimination_step(var, factors, X, e, bn) ==
    LET fs == Append(factors, make_factor(var, e, bn))
    IN  IF is_hidden(var, X, e) THEN sum_out(var, fs, bn) ELSE {fs}

\* the loop of elimination_ask over reversed(bn.variables), i counting down,
\* pass by pass: the variable of each pass, whether the pass summed it out,
\* and the factor list the pass left; the traces the loop can take
RECURSIVE elimination_passes(_, _, _, _, _)
elimination_passes(i, factors, X, e, bn) ==
    IF i = 0 THEN {<<>>}
    ELSE LET var == bn.variables[i]
         IN  UNION {{<<[var |-> var, summed |-> is_hidden(var, X, e), factors |-> fs]>> \o tr :
                        tr \in elimination_passes(i - 1, fs, X, e, bn)} :
                    fs \in elimination_step(var, factors, X, e, bn)}

\* the factor lists the loop can end with
elimination_loop(i, factors, X, e, bn) ==
    {IF tr = <<>> THEN factors ELSE tr[Len(tr)].factors :
        tr \in elimination_passes(i, factors, X, e, bn)}

\* Factor.normalize(): the table of a one-variable factor as a ProbDist
Factor_normalize(f) ==
    IF Len(f.variables) /= 1 THEN Raise("AssertionError")
    ELSE ProbDist_init(f.variables[1], [v \in {k[1] : k \in DOMAIN f.cpt} |-> f.cpt[<<v>>]],
                       <<FALSE, TRUE>>)

\* the return statement of elimination_ask on the factor list the loop
\* ended with: the outcomes it can have; reduce() of no factor raises a
\* TypeError
elimination_return(factors, bn) ==
    IF factors = <<>> THEN {Raise("TypeError")}
    ELSE {Factor_normalize(g) : g \in pointwise_product(factors, bn)}

\* the runs elimination_ask(X, e, bn) can take: the passes of the loop and
\* the outcome of the call
elimination_runs(X, e, bn) ==
    IF X \in DOMAIN e THEN {[passes |-> <<>>, res |-> Raise("AssertionError")]}
    ELSE UNION {{[passes |-> tr, res |-> r] :
                    r \in elimination_return(IF tr = <<>> THEN <<>> ELSE tr[Len(tr)].factors, bn)} :
                tr \in elimination_passes(Len(bn.variables), <<>>, X, e, bn)}

\* elimination_ask(X, e, bn): the outcomes the call can have
elimination_ask(X, e, bn) == {run.res : run \in elimination_runs(X, e, bn)}

(***************************************************************************)
(* Sampling inference                                                      *)
(***************************************************************************)
\* probability(p) of utils, p > random.uniform(0.0, 1.0): the values a draw
\* can return
probability(p) == {b \in BOOLEAN : IF b THEN p /= Zero ELSE p /= One}

\* BoolBayesNode.sample(event): the values a draw can return
BoolBayesNode_sample(node, event) == probability(BayesNode_p(node, TRUE, event))

\* prior_sample(bn): the events the loop over bn.nodes can build from node i
\* on, event holding the values of the nodes before i
RECURSIVE prior_sample_from(_, _, _)
prior_sample_from(i, event, bn) ==
    IF i > Len(bn.nodes) THEN {event}
    ELSE UNION {prior_sample_from(i + 1, Ext(event, bn.nodes[i].variable, v), bn) :
                    v \in BoolBayesNode_sample(bn.nodes[i], event)}

prior_sample(bn) == prior_sample_from(1, <<>>, bn)

\* consistent_with(event, evidence)
consistent_with(event, evidence) ==
    \A k \in DOMAIN event : (IF k \in DOMAIN evidence THEN evidence[k] ELSE event[k]) = event[k]

\* counts[x] += w
Tally(counts, x, w) == [counts EXCEPT ![x] = RAdd(@, w)]

\* the loop of rejection_sampling over the samples drawn
RECURSIVE rejection_counts(_, _, _, _)
rejection_counts(samples, counts, X, e) ==
    IF samples = <<>> THEN counts
    ELSE rejection_counts(Tail(samples),
             IF consistent_with(Head(samples), e) THEN Tally(counts, Head(samples)[X], One)
             ELSE counts,
             X, e)

\* rejection_sampling(X, e, bn, N), samples being the N prior samples drawn
rejection_sampling(X, e, bn, samples) ==
    IF NoSuchVariable(bn, X) THEN Raise("Exception")
    ELSE LET dom == variable_values(bn, X)
         IN  ProbDist_init(X, rejection_counts(samples, [x \in Range(dom) |-> Zero], X, e), dom)

\* a loop that draws a value for every node, the evidenced ones included
RECURSIVE weighted_sample_from_resample(_, _, _, _, _)
weighted_sample_from_resample(i, event, w, bn, e) ==
    IF i > Len(bn.nodes) THEN {<<event, w>>}
    ELSE LET node == bn.nodes[i]
             Xi == node.variable
             w1 == IF Xi \in DOMAIN e THEN RMul(w, BayesNode_p(node, e[Xi], event)) ELSE w
         IN  UNION {weighted_sample_from_resample(i + 1, Ext(event, Xi, v), w1, bn, e) :
                        v \in BoolBayesNode_sample(node, event)}

\* weighted_sample(bn, e): the pairs <<event, w>> the loop over bn.nodes can
\* return from node i on
RECURSIVE weighted_sample_from(_, _, _, _, _)
weighted_sample_from(i, event, w, bn, e) ==
    IF i > Len(bn.nodes) THEN {<<event, w>>}
    ELSE LET node == bn.nodes[i]
             Xi == node.variable
         IN  IF Xi \in DOMAIN e
             THEN weighted_sample_from(i + 1, event,
                                       RMul(w, BayesNode_p(node, e[Xi], event)), bn, e)
             ELSE UNION {weighted_sample_from(i + 1, Ext(event, Xi, v), w, bn, e) :
                             v \in BoolBayesNode_sample(node, event)}

weighted_sample(bn, e) == weighted_sample_from(1, e, One, bn, e)

\* the loop of likelihood_weighting over the weighted samples drawn
RECURSIVE likelihood_weights(_, _, _)
likelihood_weights(samples, W, X) ==
    IF samples = <<>> THEN W
    ELSE likelihood_weights(Tail(samples), Tally(W, Head(samples)[1][X], Head(samples)[2]), X)

\* likelihood_weighting(X, e, bn, N), samples being the N weighted samples drawn
likelihood_weighting(X, e, bn, samples) ==
    IF NoSuchVariable(bn, X) THEN Raise("Exception")
    ELSE LET dom == variable_values(bn, X)
         IN  ProbDist_init(X, likelihood_weights(samples, [x \in Range(dom) |-> Zero], X), dom)

\* markov_blanket_sample(X, e, bn) up to the draw: Q.normalize()
markov_blanket_dist(X, e, bn) ==
    LET Xnode == variable_node(bn, X)
        dom == variable_values(bn, X)
        Q == [xi \in Range(dom) |->
                 LET ei == Ext(e, X, xi)
                 IN  RMul(BayesNode_p(Xnode, xi, e),
                          RProdSeq([c \in DOMAIN Xnode.children |->
                              LET Yj == variable_node(bn, Xnode.children[c])
                              IN  BayesNode_p(Yj, ei[Yj.variable], ei)]))]
    IN  ProbDist_normalize([varname |-> X, prob |-> Q, values |-> dom])

\* gibbs_ask before its loops: the locals, init being the random.choice of
\* every non-evidence variable
gibbs_locals(X, e, bn, N, init) ==
    [pc |-> "loop", X |-> X, e |-> e, N |-> N,
     Z |-> SelectSeq(bn.variables, LAMBDA var : var \notin DOMAIN e),
     state |-> Upd(e, init),
     counts |-> [x \in Range(variable_values(bn, X)) |-> 0],
     j |-> 0, k |-> 1]

\* a loop body that tallies only when a sweep over Z has ended
gibbs_step_sweep_tally(g, v) ==
    LET st == Ext(g.state, g.Z[g.k], v)
        last == g.k = Len(g.Z)
    IN  [g EXCEPT !.state = st,
                  !.counts = IF last THEN [@ EXCEPT ![st[g.X]] = @ + 1] ELSE @,
                  !.j = IF last THEN @ + 1 ELSE @,
                  !.k = IF last THEN 1 ELSE @ + 1]

\* one pass of the inner loop body of gibbs_ask, v being the value drawn by
\* markov_blanket_sample: state[Zi] = v; counts[state[X]] += 1
gibbs_step(g, v) ==
    LET st == Ext(g.state, g.Z[g.k], v)
        last == g.k = Len(g.Z)
    IN  [g EXCEPT !.state = st,
                  !.counts = [@ EXCEPT ![st[g.X]] = @ + 1],
                  !.j = IF last THEN @ + 1 ELSE @,
                  !.k = IF last THEN 1 ELSE @ + 1]

\* no gibbs_ask is running
GibbsIdle == [pc |-> "idle"]

\* a call's outcome stays in out until the caller has taken it
Idle == [op |-> "idle"]
\* the caller can make a call: none is running and the last outcome is taken
Ready == out = Idle /\ gibbs = GibbsIdle

\* the evidence mappings callers pass: some of the names, each True or False
Events == UNION {[S -> BOOLEAN] : S \in SUBSET Vars}

\* BayesNet.add(node_spec)
add(X, parents, cpt) ==
    IF add_raises(BN, X, parents, cpt)
    THEN /\ out' = [op |-> "add", X |-> X, parents |-> parents, res |-> Raise("AssertionError")]
         /\ UNCHANGED <<netVars, gibbs, otherVars>>
    ELSE /\ UNCHANGED <<gibbs, otherVars>>
         /\ nodes' = add_net(BN, X, parents, cpt).nodes
         /\ variables' = add_net(BN, X, parents, cpt).variables
         /\ out' = [op |-> "add", X |-> X, parents |-> parents, res |-> Return(<<>>)]

Add ==
    /\ Ready
    /\ \E X \in Vars, parents \in ParentLists : \E cpt \in Tables(parents) : add(X, parents, cpt)

\* bn.variable_node(var)
VariableNode ==
    /\ Ready
    /\ \E X \in Vars :
         out' = [op |-> "variable_node", X |-> X,
                 res |-> IF NoSuchVariable(BN, X) THEN Raise("Exception")
                         ELSE Return(variable_node(BN, X).variable)]
    /\ UNCHANGED <<netVars, gibbs, otherVars>>

\* bn.variable_values(var)
VariableValues ==
    /\ Ready
    /\ \E X \in Vars :
         out' = [op |-> "variable_values", X |-> X,
                 res |-> IF NoSuchVariable(BN, X) THEN Raise("Exception")
                         ELSE Return(variable_values(BN, X))]
    /\ UNCHANGED <<netVars, gibbs, otherVars>>

EnumerationAsk ==
    /\ Ready
    /\ \E X \in Vars, e \in Events :
         out' = [op |-> "enumeration_ask", X |-> X, e |-> e, res |-> enumeration_ask(X, e, BN)]
    /\ UNCHANGED <<netVars, gibbs, otherVars>>

EliminationAsk ==
    /\ Ready
    /\ \E X \in Vars, e \in Events :
         \E run \in elimination_runs(X, e, BN) :
             out' = [op |-> "elimination_ask", X |-> X, e |-> e,
                     passes |-> run.passes, res |-> run.res]
    /\ UNCHANGED <<netVars, gibbs, otherVars>>

\* rejection_sampling(X, e, bn, N)
RejectionSampling ==
    /\ Ready
    /\ \E X \in Vars, e \in Events, N \in 0..MaxN :
         \E samples \in [1..N -> prior_sample(BN)] :
             out' = [op |-> "rejection_sampling", X |-> X, e |-> e, N |-> N,
                     res |-> rejection_sampling(X, e, BN, samples)]
    /\ UNCHANGED <<netVars, gibbs, otherVars>>

\* likelihood_weighting(X, e, bn, N)
LikelihoodWeighting ==
    /\ Ready
    /\ \E X \in Vars, e \in Events, N \in 0..MaxN :
         \E samples \in [1..N -> weighted_sample(BN, e)] :
             out' = [op |-> "likelihood_weighting", X |-> X, e |-> e, N |-> N,
                     res |-> likelihood_weighting(X, e, BN, samples)]
    /\ UNCHANGED <<netVars, gibbs, otherVars>>

\* weighted_sample(bn, e)
WeightedSample ==
    /\ Ready
    /\ \E e \in Events : \E s \in weighted_sample(BN, e) :
         out' = [op |-> "weighted_sample", e |-> e, res |-> Return(s)]
    /\ UNCHANGED <<netVars, gibbs, otherVars>>

\* gibbs_ask(X, e, bn, N) up to its loops: the assertion, the counts, Z and
\* the random initial state
GibbsAsk ==
    /\ Ready
    /\ \E X \in Vars, e \in Events, N \in 0..MaxN :
         IF X \in DOMAIN e \/ NoSuchVariable(BN, X)
         THEN /\ out' = [op |-> "gibbs_ask", X |-> X, e |-> e, N |-> N,
                         res |-> IF X \in DOMAIN e THEN Raise("AssertionError")
                                 ELSE Raise("Exception")]
              /\ gibbs' = gibbs
         ELSE /\ \E init \in [{var \in Range(variables) : var \notin DOMAIN e} -> BOOLEAN] :
                     gibbs' = gibbs_locals(X, e, BN, N, init)
              /\ out' = out
    /\ UNCHANGED <<netVars, otherVars>>

\* one pass of the inner loop: resample Z[k] given its Markov blanket, tally
GibbsStep ==
    /\ gibbs.pc = "loop"
    /\ gibbs.j < gibbs.N
    /\ LET Q == markov_blanket_dist(gibbs.Z[gibbs.k], gibbs.state, BN)
       IN  IF Q.raised /= ""
           THEN /\ out' = [op |-> "gibbs_ask", X |-> gibbs.X, e |-> gibbs.e, N |-> gibbs.N,
                           res |-> Q]
                /\ gibbs' = [gibbs EXCEPT !.pc = "raised"]
           ELSE /\ \E v \in probability(ProbDist_getitem(Q.value, TRUE)) :
                       gibbs' = gibbs_step(gibbs, v)
                /\ out' = out
    /\ UNCHANGED <<netVars, otherVars>>

\* the loops have ended: return ProbDist(X, counts)
GibbsReturn ==
    /\ gibbs.pc = "loop"
    /\ gibbs.j = gibbs.N
    /\ out' = [op |-> "gibbs_ask", X |-> gibbs.X, e |-> gibbs.e, N |-> gibbs.N,
               res |-> ProbDist_init(gibbs.X,
                           [x \in DOMAIN gibbs.counts |-> Rat(gibbs.counts[x], 1)],
                           variable_values(BN, gibbs.X))]
    /\ gibbs' = [gibbs EXCEPT !.pc = "done"]
    /\ UNCHANGED <<netVars, otherVars>>

\* the caller takes the outcome of the last call
Take ==
    /\ out /= Idle
    /\ out' = Idle
    /\ gibbs' = GibbsIdle
    /\ UNCHANGED <<netVars, otherVars>>

Init ==
    /\ nodes = <<>>
    /\ variables = <<>>
    /\ gibbs = GibbsIdle
    /\ joint = NoJoint
    /\ dist = NoDist
    /\ NoStream
    /\ grid = NoMap
    /\ out = Idle

Next == Add \/ VariableNode \/ VariableValues \/ EnumerationAsk \/ EliminationAsk \/ Take

Spec == Init /\ [][Next]_vars

(***************************************************************************)
(* Sampling over the nets BoolBayesNet(node_specs) constructs              *)
(***************************************************************************)
\* BayesNet.__init__(node_specs): add every node spec in turn (specs that add accepts)
RECURSIVE BayesNet_init(_, _)
BayesNet_init(bn, node_specs) ==
    IF node_specs = <<>> THEN bn
    ELSE LET sp == Head(node_specs)
         IN  BayesNet_init(add_net(bn, sp[1], sp[2], sp[3]), Tail(node_specs))

\* the parent lists of the nets sampled from: a chain, a collider, a child
\* that names its parent twice
Shapes ==
    { << <<"A", <<>> >>, <<"B", <<"A">> >>, <<"C", <<"B">> >> >>,
      << <<"A", <<>> >>, <<"B", <<>> >>, <<"C", <<"A", "B">> >> >>,
      << <<"A", <<>> >>, <<"B", <<"A", "A">> >> >> }

\* the node spec lists of a shape: every table for every node
SpecLists(shape) ==
    {[i \in DOMAIN shape |-> <<shape[i][1], shape[i][2], t[i]>>] :
        t \in {u \in [DOMAIN shape -> UNION {Tables(shape[i][2]) : i \in DOMAIN shape}] :
                  \A i \in DOMAIN shape : u[i] \in Tables(shape[i][2])}}

InitSampling ==
    /\ \E shape \in Shapes : \E node_specs \in SpecLists(shape) :
         LET bn == BayesNet_init([nodes |-> <<>>, variables |-> <<>>], node_specs)
         IN  nodes = bn.nodes /\ variables = bn.variables
    /\ gibbs = GibbsIdle
    /\ joint = NoJoint
    /\ dist = NoDist
    /\ NoStream
    /\ grid = NoMap
    /\ out = Idle

NextSampling ==
    \/ EnumerationAsk
    \/ EliminationAsk
    \/ RejectionSampling
    \/ LikelihoodWeighting
    \/ WeightedSample
    \/ GibbsAsk
    \/ GibbsStep
    \/ GibbsReturn
    \/ Take

SpecSampling == InitSampling /\ [][NextSampling]_vars

(***************************************************************************)
(* A JointProbDist filled entry by entry and queried                       *)
(***************************************************************************)
JointVariables == <<"A", "B">>
JointMasses == {Rat(0, 1), Rat(1, 4), Rat(1, 2)}

\* P[values] = p
JointSetItem ==
    /\ out = Idle
    /\ \E values \in [Range(joint.variables) -> BOOLEAN], p \in JointMasses :
         /\ joint' = JointProbDist_setitem(joint, values, p)
         /\ out' = [op |-> "joint_setitem", res |-> Return(<<>>)]
    /\ UNCHANGED <<netVars, gibbs, dist, hmmVars, grid>>

\* enumerate_joint_ask(X, e, P)
EnumerateJointAsk ==
    /\ out = Idle
    /\ \E X \in Vars, e \in Events :
         /\ out' = [op |-> "enumerate_joint_ask", X |-> X, e |-> e, before |-> joint,
                    res |-> enumerate_joint_ask(X, e, joint)]
         /\ joint' = enumerate_joint_ask_effect(X, e, joint)
    /\ UNCHANGED <<netVars, gibbs, dist, hmmVars, grid>>

InitJoint ==
    /\ nodes = <<>>
    /\ variables = <<>>
    /\ gibbs = GibbsIdle
    /\ joint = JointProbDist(JointVariables)
    /\ dist = NoDist
    /\ NoStream
    /\ grid = NoMap
    /\ out = Idle

NextJoint == JointSetItem \/ EnumerateJointAsk \/ Take

SpecJoint == InitJoint /\ [][NextJoint]_vars

(***************************************************************************)
(* A ProbDist assigned value by value and normalized                       *)
(***************************************************************************)
\* P[val] = p, on a distribution whose masses are still the ones entered
\* (this keeps the masses of the model in a finite set)
DistSetItem ==
    /\ out = Idle
    /\ \A v \in DOMAIN dist.prob : dist.prob[v] \in Masses
    /\ \E val \in Values, p \in Masses :
         /\ dist' = ProbDist_setitem(dist, val, p)
         /\ out' = [op |-> "setitem", res |-> Return(<<>>)]
    /\ UNCHANGED <<netVars, gibbs, joint, hmmVars, grid>>

\* P.normalize(): in place; total is the sum line 65 computes
DistNormalize ==
    /\ out = Idle
    /\ out' = [op |-> "normalize", total |-> RSumFun(dist.prob), res |-> ProbDist_normalize(dist)]
    /\ dist' = IF ProbDist_normalize(dist).raised = "" THEN ProbDist_normalize(dist).value
               ELSE dist
    /\ UNCHANGED <<netVars, gibbs, joint, hmmVars, grid>>

\* P = ProbDist(varname, freqs), the keys of freqs entered in the order keys
DistConstruct ==
    /\ out = Idle
    /\ \E S \in SUBSET Values : \E freqs \in [S -> Masses] :
         \E keys \in {k \in [1..Cardinality(S) -> S] : Range(k) = S} :
             /\ out' = [op |-> "ProbDist", total |-> RSumFun(freqs),
                        res |-> ProbDist_init("X", freqs, keys)]
             /\ dist' = IF ProbDist_init("X", freqs, keys).raised = ""
                        THEN ProbDist_init("X", freqs, keys).value
                        ELSE dist
    /\ UNCHANGED <<netVars, gibbs, joint, hmmVars, grid>>

InitDist ==
    /\ nodes = <<>>
    /\ variables = <<>>
    /\ gibbs = GibbsIdle
    /\ joint = NoJoint
    /\ dist = ProbDist_empty("X")
    /\ NoStream
    /\ grid = NoMap
    /\ out = Idle

NextDist == DistSetItem \/ DistNormalize \/ DistConstruct \/ Take

SpecDist == InitDist /\ [][NextDist]_vars

(***************************************************************************)
(* Smoothing over a caller's observation list                              *)
(***************************************************************************)
\* forward_backward(HMM, ev, HMM.prior); the call inserts None into the
\* caller's list
ForwardBackward ==
    /\ out = Idle
    /\ Len(ev) < MaxEv
    /\ out' = [op |-> "forward_backward", ev |-> ev,
               res |-> Return(forward_backward(hmm, ev, hmm.prior))]
    /\ ev' = <<None>> \o ev
    /\ UNCHANGED <<netVars, gibbs, joint, dist, hmm, lag_d, time_t, grid>>

\* the next call of the stream, fixed_lag_smoothing(e_t, HMM, d, ev, t); the
\* call inserts None into the caller's list, the caller moves on to t + 1
FixedLagSmoothing ==
    /\ out = Idle
    /\ Len(ev) < MaxEv
    /\ time_t <= MaxT
    /\ \E e_t \in Obs :
         out' = [op |-> "fixed_lag_smoothing", e_t |-> e_t, d |-> lag_d, ev |-> ev, t |-> time_t,
                 res |-> fixed_lag_smoothing(e_t, hmm, lag_d, ev, time_t)]
    /\ ev' = <<None>> \o ev
    /\ time_t' = time_t + 1
    /\ UNCHANGED <<netVars, gibbs, joint, dist, hmm, lag_d, grid>>

InitHMM ==
    /\ nodes = <<>>
    /\ variables = <<>>
    /\ gibbs = GibbsIdle
    /\ joint = NoJoint
    /\ dist = NoDist
    /\ hmm \in HMMs
    /\ lag_d \in 1..MaxLag
    /\ ev \in UNION {[1..n -> Obs] : n \in 0..MaxObs}
    /\ time_t = 1
    /\ grid = NoMap
    /\ out = Idle

NextHMM == ForwardBackward \/ FixedLagSmoothing \/ Take

SpecHMM == InitHMM /\ [][NextHMM]_vars

(***************************************************************************)
(* Factors of a net multiplied pointwise                                   *)
(***************************************************************************)
\* the factors of a net: make_factor of a variable under some evidence, and
\* such a factor with one of its variables summed out
BaseFactors(bn) == {make_factor(var, e, bn) : var \in Range(bn.variables), e \in Events}
Factors(bn) ==
    BaseFactors(bn) \cup
        UNION {{Factor_sum_out(f, v, bn) : v \in Range(f.variables)} : f \in BaseFactors(bn)}

\* A.pointwise_product(B, bn) and B.pointwise_product(A, bn), each call
\* listing its set of names in an order of its own
PointwiseProduct ==
    /\ Ready
    /\ \E A \in Factors(BN), B \in Factors(BN) :
       \E o1 \in Orders(Range(A.variables) \cup Range(B.variables)),
          o2 \in Orders(Range(A.variables) \cup Range(B.variables)) :
         out' = [op |-> "pointwise_product", A |-> A, B |-> B,
                 res |-> Factor_pointwise_product_in(A, B, BN, o1),
                 rev |-> Factor_pointwise_product_in(B, A, BN, o2)]
    /\ UNCHANGED <<netVars, gibbs, otherVars>>

NextFactor == PointwiseProduct \/ Take

SpecFactor == InitSampling /\ [][NextFactor]_vars

(***************************************************************************)
(* Ray casting on a grid map                                               *)
(***************************************************************************)
\* the kinematic states on the free cells: (row, column, orientation)
KinStates(M) == {<<M.empty[i][1], M.empty[i][2], orient>> : i \in DOMAIN M.empty, orient \in 0..3}

\* m.sample(): random.choice of a free cell and of an orientation
MapSample ==
    /\ out = Idle
    /\ IF grid.empty = <<>>
       THEN out' = [op |-> "sample", res |-> Raise("IndexError")]
       ELSE \E ks \in KinStates(grid) : out' = [op |-> "sample", res |-> Return(ks)]
    /\ UNCHANGED <<netVars, gibbs, otherVars>>

\* m.ray_cast(sensor_num, kin_state) for a pose on a free cell
RayCast ==
    /\ out = Idle
    /\ \E sensor_num \in 0..3, ks \in KinStates(grid) :
         out' = [op |-> "ray_cast", sensor_num |-> sensor_num, kin_state |-> ks,
                 res |-> ray_cast(grid, sensor_num, ks)]
    /\ UNCHANGED <<netVars, gibbs, otherVars>>

InitMap ==
    /\ nodes = <<>>
    /\ variables = <<>>
    /\ gibbs = GibbsIdle
    /\ joint = NoJoint
    /\ dist = NoDist
    /\ NoStream
    /\ \E nrows \in 1..MaxDim, ncols \in 1..MaxDim :
         \E m \in [1..nrows -> [1..ncols -> {0, 1}]] : grid = MCLmap(m)
    /\ out = Idle

NextMap == MapSample \/ RayCast \/ Take

SpecMap == InitMap /\ [][NextMap]_vars

(***************************************************************************)
(* Properties of BayesNet.add                                              *)
(***************************************************************************)
\* number of occurrences of x in the sequence s
Count(s, x) == Cardinality({i \in DOMAIN s : s[i] = x})

\* C1: after any sequence of add calls the net is topologically ordered and
\* duplicate-free: every parent of a node is the variable of a strictly
\* earlier node, no variable occurs twice in variables, variables lists the
\* nodes' variables in order; and an add returns only when its variable was
\* absent and its parents present (otherwise it fails and the net is as before)
C1_TopologicalOrder ==
    /\ \A i \in DOMAIN nodes : \A k \in DOMAIN nodes[i].parents :
           \E j \in 1..(i - 1) : nodes[j].variable = nodes[i].parents[k]
    /\ \A i, j \in DOMAIN variables : i /= j => variables[i] /= variables[j]
    /\ variables = [i \in DOMAIN nodes |-> nodes[i].variable]
    /\ (out.op = "add" /\ out.res.raised = "") =>
           /\ variables[Len(variables)] = out.X
           /\ out.X \notin Range(SubSeq(variables, 1, Len(variables) - 1))
           /\ Range(out.parents) \subseteq Range(SubSeq(variables, 1, Len(variables) - 1))
    /\ (out.op = "add" /\ out.res.raised /= "") =>
           \/ out.X \in Range(variables)
           \/ ~(Range(out.parents) \subseteq Range(variables))

\* a three-node net whose last node has two distinct parents, just after an
\* add of a present variable was refused
C1_Witness ==
    /\ Len(nodes) = 3
    /\ Cardinality(Range(nodes[3].parents)) = 2
    /\ out.op = "add" /\ out.res.raised = "AssertionError"
    /\ out.X \in Range(variables)

\* C2: the children lists are the exact reverse of the parent edges: c is in
\* p.children, once, if and only if p's variable is among c.parents
C2_ChildrenReverseParents ==
    \A i, j \in DOMAIN nodes :
        Count(nodes[i].children, nodes[j].variable) =
            IF nodes[i].variable \in Range(nodes[j].parents) THEN 1 ELSE 0

(***************************************************************************)
(* Properties of exact inference                                           *)
(***************************************************************************)
\* two outcomes agree: both raise, or both return and give every value of
\* the domain the same probability
Agree(r1, r2, dom) ==
    /\ (r1.raised = "") <=> (r2.raised = "")
    /\ r1.raised = "" =>
           \A x \in Range(dom) : ProbDist_getitem(r1.value, x) = ProbDist_getitem(r2.value, x)

\* C3: for a registered query variable X not in e, elimination_ask and
\* enumeration_ask yield the same distribution over X's domain, and one
\* fails exactly when the other fails
C3_EliminationAgreesWithEnumeration ==
    (out.op = "elimination_ask" /\ out.X \in Range(variables) /\ out.X \notin DOMAIN out.e)
        => Agree(out.res, enumeration_ask(out.X, out.e, BN), variable_values(BN, out.X))

\* an elimination over three nodes with evidence and a hidden variable that
\* has a child, returning a distribution that is not 0/1
C3_Witness ==
    /\ out.op = "elimination_ask"
    /\ Len(nodes) = 3
    /\ out.X \in Range(variables) /\ out.X \notin DOMAIN out.e
    /\ DOMAIN out.e /= {}
    /\ \E i \in DOMAIN nodes :
          /\ is_hidden(nodes[i].variable, out.X, out.e)
          /\ nodes[i].children /= <<>>
    /\ out.res.raised = ""
    /\ out.res.value.prob[TRUE] \notin {Zero, One}

\* an elimination that fails on evidence of probability 0
C3_WitnessZero ==
    /\ out.op = "elimination_ask"
    /\ out.X \in Range(variables) /\ out.X \notin DOMAIN out.e
    /\ out.res.raised = "ZeroDivisionError"
(***************************************************************************)
(* Properties of the sampling entry points                                 *)
(***************************************************************************)
\* sum of the tally counts
RECURSIVE SumCounts(_)
SumCounts(c) ==
    IF DOMAIN c = {} THEN 0
    ELSE LET x == CHOOSE x \in DOMAIN c : TRUE
         IN  c[x] + SumCounts([y \in DOMAIN c \ {x} |-> c[y]])

\* the network variables that are not evidence
NonEvidence(e) == {var \in Range(variables) : var \notin DOMAIN e}

\* C7: in gibbs_ask the tally is incremented exactly once after every
\* single-variable resampling step, so the counts sum to the number of steps
\* made, and to N * (number of network variables not in e) when the loops end
C7_GibbsTally ==
    /\ gibbs.pc \in {"loop", "done"} =>
           SumCounts(gibbs.counts) = gibbs.j * Cardinality(NonEvidence(gibbs.e)) + (gibbs.k - 1)
    /\ gibbs.pc = "done" =>
           SumCounts(gibbs.counts) = gibbs.N * Cardinality(NonEvidence(gibbs.e))

\* a gibbs_ask over three variables, two of them not evidence, that has ended
\* after two sweeps
C7_Witness ==
    /\ gibbs.pc = "done"
    /\ gibbs.N = 2
    /\ Len(variables) = 3
    /\ Cardinality(NonEvidence(gibbs.e)) = 2
    /\ out.res.raised = ""
\* the inference entry points that take a query variable X and evidence e
EntryPoints ==
    {"enumerate_joint_ask", "enumeration_ask", "elimination_ask", "gibbs_ask",
     "rejection_sampling", "likelihood_weighting"}

\* C4: every inference entry point fails, and returns no distribution, when
\* the query variable X is a key of the evidence mapping e
C4_QueryInEvidenceFails ==
    (out.op \in EntryPoints /\ out.X \in DOMAIN out.e) => out.res.raised /= ""

\* C5: querying a variable that is not registered in the model fails and
\* returns no value, for variable_node, variable_values, the entry points on
\* a net and enumerate_joint_ask on a JointProbDist, and the failed query
\* leaves the model unchanged
C5_UnregisteredQueryFails ==
    /\ (/\ out.op \in (EntryPoints \cup {"variable_node", "variable_values"})
               \ {"enumerate_joint_ask"}
        /\ NoSuchVariable(BN, out.X))
           => out.res.raised /= ""
    /\ (out.op = "enumerate_joint_ask" /\ out.X \notin Range(joint.variables))
           => (out.res.raised /= "" /\ joint = out.before)

\* C8: normalizing a distribution whose masses total exactly 0 fails with a
\* division error and never returns a distribution, be it P.normalize(), a
\* ProbDist built from an all-zero frequency mapping, or rejection_sampling
\* with every sample rejected
C8_ZeroTotalFails ==
    /\ (out.op \in {"normalize", "ProbDist"} /\ out.total = Zero)
           => out.res.raised = "ZeroDivisionError"
    /\ (/\ out.op = "rejection_sampling"
        /\ ~NoSuchVariable(BN, out.X)
        /\ out.res.raised = "")
           => RSumFun(out.res.value.prob) /= Zero
(***************************************************************************)
(* Properties of the smoothing algorithms                                  *)
(***************************************************************************)
\* C6: in a stream of fixed_lag_smoothing calls with t = 1, 2, 3, ... and lag
\* d, a call returns None whenever t does not exceed d (the call with t = d
\* included) and a 2-vector whenever t > d
C6_FixedLagNoneUntilWindowFills ==
    (out.op = "fixed_lag_smoothing" /\ out.res.raised = "") =>
        IF out.t <= out.d THEN out.res.value = NoEstimate
        ELSE Len(out.res.value) = 2

\* the forward belief of time step k: k forward steps from the prior
RECURSIVE ForwardBelief(_, _, _, _)
ForwardBelief(HMM, evl, prior, k) ==
    IF k = 0 THEN prior
    ELSE forward(HMM, ForwardBelief(HMM, evl, prior, k - 1), evl[k])

\* the backward message for the steps k+1..Len(evl)
RECURSIVE BackwardMessage(_, _, _)
BackwardMessage(HMM, evl, k) ==
    IF k = Len(evl) THEN <<One, One>>
    ELSE backward(HMM, BackwardMessage(HMM, evl, k + 1), evl[k + 1])

\* the smoothed estimate of time step k
Smoothed(HMM, evl, prior, k) ==
    normalize(element_wise_product(ForwardBelief(HMM, evl, prior, k),
                                   BackwardMessage(HMM, evl, k)))

\* C9: forward_backward returns the smoothed posteriors in original time
\* order: for every k the element at position k of the returned list is the
\* smoothed estimate of time step k
C9_SmoothedInTimeOrder ==
    out.op = "forward_backward" =>
        \A k \in 0..Len(out.ev) :
            out.res.value[k + 1] = Smoothed(hmm, out.ev, hmm.prior, k)
(***************************************************************************)
(* Properties of ray casting                                               *)
(***************************************************************************)
\* the cell n unit steps from a pose along a direction is off the map or an
\* obstacle
Blocked(M, ks, delta, n) ==
    LET r == ks[1] + n * delta[1]
        c == ks[2] + n * delta[2]
    IN  \/ r < 0 \/ r >= M.nrows \/ c < 0 \/ c >= M.ncols
        \/ M.m[r + 1][c + 1] /= 0

\* C10: on every rectangular grid map, for every pose on a free cell and
\* every sensor, ray_cast returns the number of unit steps to the first cell
\* along the rotated sensor direction that is an obstacle or outside the map,
\* and reads no cell outside the grid
C10_RayCastDistance ==
    out.op = "ray_cast" =>
        LET delta == rotate(sensor_delta(out.sensor_num), out.kin_state[3])
        IN  /\ out.res.raised = ""
            /\ Blocked(grid, out.kin_state, delta, out.res.value)
            /\ \A n \in 0..(out.res.value - 1) : ~Blocked(grid, out.kin_state, delta, n)
(***************************************************************************)
(* Frame of the smoothing calls                                            *)
(***************************************************************************)
\* C11: after a call of forward_backward or fixed_lag_smoothing the
\* caller-supplied observation sequence equals what it was before the call
\* (out.ev is the list as the call received it), and the model is unchanged
C11_CallLeavesObservationsUnchanged ==
    out.op \in {"forward_backward", "fixed_lag_smoothing"} =>
        /\ ev = out.ev
        /\ hmm \in HMMs
(***************************************************************************)
(* Algebra of the pointwise product                                        *)
(***************************************************************************)
\* C12: for two factors A and B of one network, A.pointwise_product(B) and
\* B.pointwise_product(A) range over the same variable set, the union of
\* the two, and give every joint assignment the same value; and when A and
\* B share no variable the entries of the product sum to sum(A) * sum(B)
C12_PointwiseProductAlgebra ==
    out.op = "pointwise_product" =>
        LET names == Range(out.A.variables) \cup Range(out.B.variables)
        IN  /\ Range(out.res.variables) = names
            /\ Range(out.rev.variables) = names
            /\ \A e1 \in all_events(out.res.variables, BN, <<>>) :
                   Factor_p(out.res, e1) = Factor_p(out.rev, e1)
            /\ Range(out.A.variables) \cap Range(out.B.variables) = {} =>
                   RSumFun(out.res.cpt) = RMul(RSumFun(out.A.cpt), RSumFun(out.B.cpt))

\* two factors over disjoint, non-empty variable sets have been multiplied
\* both ways, the two products listing the names in different orders, and
\* the product has a non-zero sum that is not 1
C12_Witness ==
    /\ out.op = "pointwise_product"
    /\ out.A.variables /= <<>>
    /\ out.B.variables /= <<>>
    /\ Range(out.A.variables) \cap Range(out.B.variables) = {}
    /\ out.res.variables /= out.rev.variables
    /\ RSumFun(out.res.cpt) \notin {Zero, One}
(***************************************************************************)
(* Evidence in the sampling algorithms                                     *)
(***************************************************************************)
\* the likelihood an event accords to the evidence: the product, over the
\* evidenced nodes in node order, of P(Xi = e[Xi] | parents(Xi))
EvidenceLikelihood(bn, e, event) ==
    RProdSeq([i \in 1..Len(bn.nodes) |->
                 IF bn.nodes[i].variable \in DOMAIN e
                 THEN BayesNode_p(bn.nodes[i], e[bn.nodes[i].variable], event)
                 ELSE One])

\* C13: evidenced variables are never resampled: every event returned by
\* weighted_sample(bn, e) assigns the variables of the net and of e, each
\* variable of e holding its evidence value, and the weight returned is the
\* product over the evidenced nodes of node.p(e[var], event); and in every
\* state of a gibbs_ask(X, e, bn, N) after initialization each variable of
\* e holds its evidence value
C13_EvidenceNeverResampled ==
    /\ out.op = "weighted_sample" =>
           LET event == out.res.value[1]
               w == out.res.value[2]
           IN  /\ DOMAIN event = DOMAIN out.e \cup Range(variables)
               /\ \A v \in DOMAIN out.e : event[v] = out.e[v]
               /\ w = EvidenceLikelihood(BN, out.e, event)
    /\ gibbs /= GibbsIdle =>
           /\ DOMAIN gibbs.state = DOMAIN gibbs.e \cup Range(variables)
           /\ \A v \in DOMAIN gibbs.e : gibbs.state[v] = gibbs.e[v]

\* weighted_sample has returned an event for evidence on a node that has a
\* parent, with a sampled variable in it and a weight that is neither 0 nor 1
C13_Witness ==
    /\ out.op = "weighted_sample"
    /\ \E v \in DOMAIN out.e :
           /\ ~NoSuchVariable(BN, v)
           /\ variable_node(BN, v).parents /= <<>>
    /\ Range(variables) \ DOMAIN out.e /= {}
    /\ out.res.value[2] \notin {Zero, One}
(***************************************************************************)
(* The elimination pass                                                    *)
(***************************************************************************)
\* C14: in elimination_ask(X, e, bn) with X registered and not in e, the
\* passes take the variables in the reverse of the node order, a pass sums
\* its variable out exactly when the variable is hidden, no factor left by
\* that pass or a later one mentions a summed-out variable, every factor
\* left by the last pass ranges over a subset of {X}, and the pointwise
\* product of these ranges over the one variable X, so that
\* Factor.normalize's assertion holds
C14_EliminationPass ==
    (/\ out.op = "elimination_ask"
     /\ ~NoSuchVariable(BN, out.X)
     /\ out.X \notin DOMAIN out.e) =>
        LET tr == out.passes
            n == Len(variables)
        IN  /\ Len(tr) = n
            /\ \A k \in 1..n :
                   /\ tr[k].var = variables[n + 1 - k]
                   /\ tr[k].summed <=> (tr[k].var /= out.X /\ tr[k].var \notin DOMAIN out.e)
                   /\ tr[k].summed =>
                          \A j \in k..n : \A i \in DOMAIN tr[j].factors :
                              tr[k].var \notin Range(tr[j].factors[i].variables)
            /\ \A i \in DOMAIN tr[n].factors : Range(tr[n].factors[i].variables) \subseteq {out.X}
            /\ \A g \in pointwise_product(tr[n].factors, BN) : g.variables = <<out.X>>
            /\ out.res.raised /= "AssertionError"

\* elimination_ask has returned a distribution on a net of three variables,
\* two of them hidden and summed out by their passes
C14_Witness ==
    /\ out.op = "elimination_ask"
    /\ out.res.raised = ""
    /\ Len(out.passes) = 3
    /\ Cardinality({k \in 1..3 : out.passes[k].summed}) = 2
    /\ Len(out.passes[3].factors) >= 1
====
